---- MODULE Spec2Model ----
(***************************************************************************)
(* A model of the terminal Jeopardy game of src/jeopardy_game.py: the      *)
(* question source (generate_question), the answer matcher (check_answer), *)
(* the board (initialize_board) and the game loop (play_game, play_turn).  *)
(* Strings are sequences of one-character strings.                         *)
(***************************************************************************)
EXTENDS Integers, Sequences, FiniteSets, TLC

VARIABLES
    board,           \* self.board: category -> points -> cell
    score,           \* self.score
    console,         \* what self.console / rprint put on the screen since the last clear()
    pc,              \* where the control flow is blocked
    cat_i,           \* initialize_board: index of the category being generated
    pts_i,           \* initialize_board: index of the point value being generated
    calls,           \* history: the generate_question calls made, one <<category, points>> each
    played,          \* history: per cell, the check_answer verdicts it was scored with
    request,         \* a single generate_question call: its arguments and the HTTP outcome
    result,          \* a single generate_question call: what it returned
    player_answer,   \* a check_answer call: first argument
    correct_answer,  \* a check_answer call: second argument
    verdict,         \* a check_answer call: the value returned
    variant          \* a second check_answer call on a respelling of the same answers

vars == <<board, score, console, pc, cat_i, pts_i, calls, played,
          request, result, player_answer, correct_answer, verdict, variant>>

None == "none"

----------------------------------------------------------------------------
(* Bounds of the model *)

\* how many of the categories and of the point values the modelled board uses
NumCategories == 2
NumPoints == 2
\* longest answer handed to check_answer
MaxLen == 4
\* most tokens in the text field of a generation response
MaxTokens == 4

----------------------------------------------------------------------------
(* str methods *)

Whitespace == {" ", "\n"}

\* set(list)
set(seq) == {seq[i] : i \in 1..Len(seq)}

UpperCase == <<"A","B","C","D","E","F","G","H","I","J","K","L","M",
               "N","O","P","Q","R","S","T","U","V","W","X","Y","Z">>
LowerCase == <<"a","b","c","d","e","f","g","h","i","j","k","l","m",
               "n","o","p","q","r","s","t","u","v","w","x","y","z">>

\* upper-case letter -> lower-case letter
to_lower == [c \in set(UpperCase) |-> LowerCase[CHOOSE i \in 1..26 : UpperCase[i] = c]]
\* lower-case letter -> upper-case letter
to_upper == [c \in set(LowerCase) |-> UpperCase[CHOOSE i \in 1..26 : LowerCase[i] = c]]

lower_char(c) == IF c \in DOMAIN to_lower THEN to_lower[c] ELSE c

upper_char(c) == IF c \in DOMAIN to_upper THEN to_upper[c] ELSE c

\* str.lower()
lower(s) == [i \in 1..Len(s) |-> lower_char(s[i])]

\* str.strip()
strip(s) ==
    LET solid == {i \in 1..Len(s) : s[i] \notin Whitespace}
    IN  IF solid = {} THEN <<>>
        ELSE LET lo == CHOOSE i \in solid : \A j \in solid : i <= j
                 hi == CHOOSE i \in solid : \A j \in solid : i >= j
             IN  SubSeq(s, lo, hi)

\* str.split(): the words between runs of whitespace
RECURSIVE split(_)
split(s) ==
    LET t == strip(s)
    IN  IF t = <<>> THEN <<>>
        ELSE LET gaps == {i \in 1..Len(t) : t[i] \in Whitespace}
                 n == IF gaps = {} THEN Len(t) + 1
                      ELSE CHOOSE i \in gaps : \A j \in gaps : i <= j
             IN  <<SubSeq(t, 1, n - 1)>> \o split(SubSeq(t, n, Len(t)))

\* str.split(sep) for a one-character separator: empty pieces are kept
RECURSIVE split_on(_, _)
split_on(s, sep) ==
    LET at == {i \in 1..Len(s) : s[i] = sep}
    IN  IF at = {} THEN <<s>>
        ELSE LET n == CHOOSE i \in at : \A j \in at : i <= j
             IN  <<SubSeq(s, 1, n - 1)>> \o split_on(SubSeq(s, n + 1, Len(s)), sep)

\* str.replace(old, ""): every non-overlapping occurrence, left to right
RECURSIVE replace(_, _)
replace(s, old) ==
    IF Len(s) < Len(old) THEN s
    ELSE IF SubSeq(s, 1, Len(old)) = old
         THEN replace(SubSeq(s, Len(old) + 1, Len(s)), old)
         ELSE <<s[1]>> \o replace(Tail(s), old)

----------------------------------------------------------------------------
(* difflib.SequenceMatcher(None, a, b).ratio(), indices 1-based and inclusive *)

RECURSIVE run_length(_, _, _, _, _, _)
run_length(a, b, i, j, ahi, bhi) ==
    IF i > ahi \/ j > bhi \/ a[i] # b[j] THEN 0
    ELSE 1 + run_length(a, b, i + 1, j + 1, ahi, bhi)

\* the longest block that starts at a[i] and at b[j] or later in b, the earliest in b
RECURSIVE scan_row(_, _, _, _, _, _)
scan_row(a, b, i, j, ahi, bhi) ==
    IF j > bhi THEN <<i, j, 0>>
    ELSE LET k == IF a[i] = b[j] THEN 1 + run_length(a, b, i + 1, j + 1, ahi, bhi) ELSE 0
             later == scan_row(a, b, i, j + 1, ahi, bhi)
         IN  IF later[3] > k THEN later ELSE <<i, j, k>>

\* the longest block that starts at a[i] or later in a, the earliest in a, then in b
RECURSIVE scan_matches(_, _, _, _, _, _)
scan_matches(a, b, i, ahi, blo, bhi) ==
    IF i > ahi THEN <<i, blo, 0>>
    ELSE LET row == scan_row(a, b, i, blo, ahi, bhi)
             later == scan_matches(a, b, i + 1, ahi, blo, bhi)
         IN  IF later[3] > row[3] THEN later ELSE row

\* find_longest_match: the longest matching block, the earliest in a, then the earliest
\* in b; <<alo, blo, 0>> when nothing matches
find_longest_match(a, b, alo, ahi, blo, bhi) ==
    LET best == scan_matches(a, b, alo, ahi, blo, bhi)
    IN  IF best[3] = 0 THEN <<alo, blo, 0>> ELSE best

\* the sum of the sizes of get_matching_blocks()
RECURSIVE matches(_, _, _, _, _, _)
matches(a, b, alo, ahi, blo, bhi) ==
    IF alo > ahi \/ blo > bhi THEN 0
    ELSE LET m == find_longest_match(a, b, alo, ahi, blo, bhi)
         IN  IF m[3] = 0 THEN 0
             ELSE m[3] + matches(a, b, alo, m[1] - 1, blo, m[2] - 1)
                       + matches(a, b, m[1] + m[3], ahi, m[2] + m[3], bhi)

\* ratio() as the fraction <<numerator, denominator>>: 2.0 * matches / length, or 1.0
ratio(a, b) ==
    IF Len(a) + Len(b) = 0 THEN <<1, 1>>
    ELSE <<2 * matches(a, b, 1, Len(a), 1, Len(b)), Len(a) + Len(b)>>

----------------------------------------------------------------------------
(* JeopardyGame.check_answer *)

\* check_answer with the .strip() of lines 70-71 left out
check_answer_unstripped(player, correct) ==
    LET p == lower(player)
        c == lower(correct)
        similarity == ratio(p, c)
        player_words == set(split(p))
        correct_words == set(split(c))
        important_words == {word \in correct_words : Len(word) > 3}
    IN  IF p = c THEN TRUE
        ELSE IF 10 * similarity[1] > 8 * similarity[2] THEN TRUE
        ELSE IF important_words # {} /\ important_words \subseteq player_words THEN TRUE
        ELSE FALSE

\* check_answer with a similarity threshold of 0.6 in line 79
check_answer_low_threshold(player, correct) ==
    LET p == strip(lower(player))
        c == strip(lower(correct))
        similarity == ratio(p, c)
        player_words == set(split(p))
        correct_words == set(split(c))
        important_words == {word \in correct_words : Len(word) > 3}
    IN  IF p = c THEN TRUE
        ELSE IF 10 * similarity[1] > 6 * similarity[2] THEN TRUE
        ELSE IF important_words # {} /\ important_words \subseteq player_words THEN TRUE
        ELSE FALSE

check_answer(player, correct) ==
    LET p == strip(lower(player))
        c == strip(lower(correct))
        similarity == ratio(p, c)
        player_words == set(split(p))
        correct_words == set(split(c))
        important_words == {word \in correct_words : Len(word) > 3}
    IN  IF p = c THEN TRUE
        ELSE IF 10 * similarity[1] > 8 * similarity[2] THEN TRUE
        ELSE IF important_words # {} /\ important_words \subseteq player_words THEN TRUE
        ELSE FALSE

----------------------------------------------------------------------------
(* JeopardyGame.__init__ *)

AllCategories == <<"Science", "History", "Geography", "Arts", "Sports">>
AllPoints == <<100, 200, 300, 400, 500>>

\* self.categories and self.points, cut to the bounds of the model
categories == SubSeq(AllCategories, 1, NumCategories)
points == SubSeq(AllPoints, 1, NumPoints)

\* the cells of the board, <<category, points>>
Cells == set(categories) \X set(points)

\* the fields as __init__ leaves them: an empty board, a score of 0
Constructed ==
    /\ board = <<>>
    /\ score = 0
    /\ console = <<>>
    /\ cat_i = 0
    /\ pts_i = 0
    /\ calls = [cell \in Cells |-> 0]
    /\ played = [cell \in Cells |-> <<>>]

----------------------------------------------------------------------------
(* JeopardyGame.generate_question *)

Backup == <<"b","a","c","k","u","p">>
AnswerPrefix == <<"a","n","s","w","e","r",":">>
APrefix == <<"a",":">>

\* the response of tests' test_generate_question_success
TestResponse == <<"W","h","a","t"," ","i","s"," ","t","h","e"," ","c","a","p","i","t","a","l"," ","o","f"," ","F","r","a","n","c","e","?","\n","P","a","r","i","s">>

\* the text field of a response: up to MaxTokens of these pieces, one after the other
Tokens == {<<"Q">>, <<"a">>, APrefix, <<" ">>, <<"\n">>, AnswerPrefix}

RECURSIVE TokenTexts(_)
TokenTexts(n) ==
    IF n = 0 THEN {<<>>}
    ELSE LET shorter == TokenTexts(n - 1)
         IN  shorter \cup {t \o tok : t \in shorter, tok \in Tokens}

Texts == TokenTexts(MaxTokens) \cup {TestResponse}

\* what the HTTP call can come to: requests.post raises, raise_for_status raises,
\* response.json() raises, the body has no 'response' key or one that is no string,
\* or the body carries a text
Outcomes ==
    {[kind |-> k] : k \in {"ConnectionError", "Timeout", "HTTPError",
                           "JSONDecodeError", "KeyError", "AttributeError"}}
    \cup {[kind |-> "ok", text |-> t] : t \in Texts}

\* the fallback pair of lines 46-49 and 54-57
fallback(category, pts) ==
    [question |-> <<"This ", category, " question is worth $", ToString(pts)>>,
     answer |-> Backup]

\* line 35 with > for >=
more_than_two_lines(lines) == Len(lines) > 2

\* line 35
enough_lines(lines) == Len(lines) >= 2

\* line 39
strip_prefixes(answer) == strip(replace(replace(lower(answer), AnswerPrefix), APrefix))

\* the try block, lines 24-49: what it returns, or the exception it raises
try_block(category, pts, outcome) ==
    IF outcome.kind # "ok" THEN [raised |-> outcome.kind]
    ELSE LET lines == split_on(strip(outcome.text), "\n")
         IN  IF enough_lines(lines)
             THEN [returned |-> [question |-> strip(lines[1]),
                                 answer |-> strip_prefixes(strip(lines[2]))],
                   branch |-> "generated", printed |-> <<>>]
             ELSE [returned |-> fallback(category, pts),
                   branch |-> "too_few_lines", printed |-> <<>>]

\* line 51 catching requests.exceptions.RequestException only
caught_request_errors(exception) == exception \in {"ConnectionError", "Timeout", "HTTPError"}

\* line 51: except Exception catches every exception the try block can raise
caught(exception) == TRUE

generate_question(category, pts, outcome) ==
    LET body == try_block(category, pts, outcome)
    IN  IF "raised" \notin DOMAIN body THEN body
        ELSE IF caught(body.raised)
        THEN [returned |-> fallback(category, pts),
              branch |-> "except",
              printed |-> <<[kind |-> "error", text |-> body.raised]>>]
        ELSE body

\* one call of generate_question, on any arguments and any outcome of the HTTP call
InitGen ==
    /\ Constructed
    /\ pc = "call"
    /\ request \in [category : set(categories), points : set(points), outcome : Outcomes]
    /\ result = None
    /\ player_answer = None /\ correct_answer = None /\ verdict = None /\ variant = None

GenerateQuestion ==
    /\ pc = "call"
    /\ LET r == generate_question(request.category, request.points, request.outcome)
       IN  /\ result' = r
           /\ console' = IF "raised" \in DOMAIN r THEN console ELSE console \o r.printed
    /\ pc' = "returned"
    /\ UNCHANGED <<board, score, cat_i, pts_i, calls, played, request,
                   player_answer, correct_answer, verdict, variant>>

NextGen == GenerateQuestion

SpecGen == InitGen /\ [][NextGen]_vars

----------------------------------------------------------------------------
(* Calls of check_answer: on short answers over a small alphabet and on the     *)
(* answers of test_answer_validation, then on a respelling of the same answers  *)

Alphabet == {"a", "b", " "}
Answers == UNION {[1..n -> Alphabet] : n \in 0..MaxLen}

\* the plain forms of test_answer_validation's cases on letter case, extra spaces
\* and partial answers (lines 61-63 and 78-84)
TestAnswers ==
    {<<<<"p","a","r","i","s">>, <<"p","a","r","i","s">>>>,
     <<<<"m","o","u","n","t"," ","e","v","e","r","e","s","t">>, <<"m","o","u","n","t"," ","e","v","e","r","e","s","t">>>>,
     <<<<"n","e","w">>, <<"n","e","w"," ","y","o","r","k"," ","c","i","t","y">>>>,
     <<<<"c","a","t">>, <<"c","a","t","e","g","o","r","y">>>>}

upper(s) == [i \in 1..Len(s) |-> upper_char(s[i])]

spaces(n) == [i \in 1..n |-> " "]

\* the spaces of s that stand between two words
inner_spaces(s) ==
    {i \in 1..Len(s) : /\ s[i] = " "
                       /\ \E j \in 1..(i - 1) : s[j] \notin Whitespace
                       /\ \E j \in (i + 1)..Len(s) : s[j] \notin Whitespace}

\* the same answers in another letter case: one letter of the player's answer, or
\* the whole of either answer, in upper case
case_respellings(p, c) ==
    {[kind |-> "case", player |-> [p EXCEPT ![i] = upper_char(p[i])], correct |-> c] :
        i \in {j \in 1..Len(p) : upper_char(p[j]) # p[j]}}
    \cup {[kind |-> "case", player |-> upper(p), correct |-> c],
          [kind |-> "case", player |-> p, correct |-> upper(c)]}

\* the same answers with spaces added before, after or between the player's words
space_respellings(p, c) ==
    {[kind |-> "outer_space", player |-> <<" ">> \o p, correct |-> c],
     [kind |-> "outer_space", player |-> p \o <<" ">>, correct |-> c],
     [kind |-> "outer_space", player |-> spaces(2) \o p \o spaces(2), correct |-> c]}
    \cup {[kind |-> "inner_space",
           player |-> SubSeq(p, 1, i) \o spaces(n) \o SubSeq(p, i + 1, Len(p)),
           correct |-> c] : i \in inner_spaces(p), n \in 1..2}

InitMatch ==
    /\ Constructed
    /\ pc = "input"
    /\ request = None /\ result = None
    /\ \E pair \in (Answers \X Answers) \cup TestAnswers :
          /\ player_answer = pair[1]
          /\ correct_answer = pair[2]
    /\ verdict = None
    /\ variant = None

CheckAnswer ==
    /\ pc = "input"
    /\ verdict' = check_answer(player_answer, correct_answer)
    /\ pc' = "checked"
    /\ UNCHANGED <<board, score, console, cat_i, pts_i, calls, played, request, result,
                   player_answer, correct_answer, variant>>

CheckRespelling ==
    /\ pc = "checked"
    /\ \E r \in case_respellings(player_answer, correct_answer)
                \cup space_respellings(player_answer, correct_answer) :
          variant' = [kind |-> r.kind, player |-> r.player, correct |-> r.correct,
                      verdict |-> check_answer(r.player, r.correct)]
    /\ pc' = "respelled"
    /\ UNCHANGED <<board, score, console, cat_i, pts_i, calls, played, request, result,
                   player_answer, correct_answer, verdict>>

NextMatch == CheckAnswer \/ CheckRespelling

SpecMatch == InitMatch /\ [][NextMatch]_vars

----------------------------------------------------------------------------
(* The game: play_game, initialize_board, display_board, play_turn *)

\* the outcomes of the HTTP call during a game: the service is down, it answers one
\* line only, or it answers a question and its answer
GameOutcomes ==
    {[kind |-> "ConnectionError"],
     [kind |-> "ok", text |-> <<"Q">>],
     [kind |-> "ok", text |-> TestResponse]}

\* what the player types at the answer prompt
PlayerAnswers == {<<"P","a","r","i","s">>, <<"b","a","c","k","u","p">>, <<"m","a","r","s">>}

\* lines 102-106 with the flag set
new_cell_answered(qa_pair) ==
    [question |-> qa_pair.question, answer |-> qa_pair.answer, answered |-> TRUE]

\* lines 102-106
new_cell(qa_pair) ==
    [question |-> qa_pair.question, answer |-> qa_pair.answer, answered |-> FALSE]

\* lines 184-188 with any() for all()
any_answered(b) ==
    \E category \in DOMAIN b : \E pts \in DOMAIN b[category] : b[category][pts].answered

\* lines 184-188
all_answered(b) ==
    \A category \in DOMAIN b : \A pts \in DOMAIN b[category] : b[category][pts].answered

\* lines 142-143 without the filter on the answered flag
every_point(b, category) == DOMAIN b[category]

\* lines 142-143
available_points(b, category) ==
    {pts \in DOMAIN b[category] : ~b[category][pts].answered}

\* line 169
mark_answered(b, category, pts) ==
    [b EXCEPT ![category][pts].answered = TRUE]

\* lines 161-165 without the penalty of a wrong answer
updated_score_no_penalty(s, pts, correct) == IF correct THEN s + pts ELSE s

\* lines 161-165
updated_score(s, pts, correct) == IF correct THEN s + pts ELSE s - pts

\* display_board: the screen is cleared, the table and the score are printed
display_board(b, s) ==
    <<[kind |-> "board",
       table |-> [category \in DOMAIN b |->
                    [pts \in DOMAIN b[category] |->
                        IF b[category][pts].answered THEN "----" ELSE ToString(pts)]],
       score |-> s]>>

\* lines 181-197, from the top of the loop to the next blocking prompt: the board is
\* displayed, and the game is over when every question is answered
loop_head(b, s) ==
    IF all_answered(b)
    THEN [pc |-> "done",
          console |-> display_board(b, s) \o <<[kind |-> "game_over", score |-> s]>>]
    ELSE [pc |-> "turn", console |-> display_board(b, s)]

Init ==
    /\ Constructed
    /\ pc = "start"
    /\ request = None /\ result = None
    /\ player_answer = None /\ correct_answer = None /\ verdict = None /\ variant = None

\* play_game up to the first generation call of initialize_board
StartGame ==
    /\ pc = "start"
    /\ board' = (categories[1] :> <<>>)
    /\ console' = <<[kind |-> "welcome"], [kind |-> "initializing"],
                    [kind |-> "generating", category |-> categories[1]]>>
    /\ cat_i' = 1
    /\ pts_i' = 1
    /\ pc' = "generating"
    /\ UNCHANGED <<score, calls, played, request, result,
                   player_answer, correct_answer, verdict, variant>>

\* initialize_board: one generate_question call comes back, its pair is stored, and
\* the loops go on to the next call or, after the last, into the game loop
GenerateCell ==
    /\ pc = "generating"
    /\ \E outcome \in GameOutcomes :
          LET category == categories[cat_i]
              pts == points[pts_i]
              r == generate_question(category, pts, outcome)
          IN  IF "raised" \in DOMAIN r
              THEN /\ pc' = "crashed"
                   /\ calls' = [calls EXCEPT ![<<category, pts>>] = @ + 1]
                   /\ UNCHANGED <<board, console, cat_i, pts_i>>
              ELSE LET b == [board EXCEPT ![category] =
                                (pts :> new_cell(r.returned)) @@ board[category]]
                       shown == console \o r.printed
                   IN  /\ calls' = [calls EXCEPT ![<<category, pts>>] = @ + 1]
                       /\ IF pts_i < Len(points)
                          THEN /\ board' = b
                               /\ console' = shown
                               /\ pts_i' = pts_i + 1
                               /\ UNCHANGED <<cat_i, pc>>
                          ELSE IF cat_i < Len(categories)
                          THEN /\ board' = (categories[cat_i + 1] :> <<>>) @@ b
                               /\ console' = shown \o <<[kind |-> "generating",
                                                         category |-> categories[cat_i + 1]]>>
                               /\ cat_i' = cat_i + 1
                               /\ pts_i' = 1
                               /\ UNCHANGED pc
                          ELSE /\ board' = b
                               /\ console' = loop_head(b, score).console
                               /\ pc' = loop_head(b, score).pc
                               /\ UNCHANGED <<cat_i, pts_i>>
    /\ UNCHANGED <<score, played, request, result,
                   player_answer, correct_answer, verdict, variant>>

\* play_turn, lines 135-136 and play_game, lines 193-197: the player declines
DeclineTurn ==
    /\ pc = "turn"
    /\ console' = console \o <<[kind |-> "thanks"], [kind |-> "game_over", score |-> score]>>
    /\ pc' = "done"
    /\ UNCHANGED <<board, score, cat_i, pts_i, calls, played, request, result,
                   player_answer, correct_answer, verdict, variant>>

\* play_turn, lines 139-146: the chosen category has no question left
ExhaustedCategory ==
    /\ pc = "turn"
    /\ \E category \in set(categories) :
          /\ available_points(board, category) = {}
          /\ console' = loop_head(board, score).console
          /\ pc' = loop_head(board, score).pc
    /\ UNCHANGED <<board, score, cat_i, pts_i, calls, played, request, result,
                   player_answer, correct_answer, verdict, variant>>

\* play_turn, lines 139-171: a question is chosen, answered and scored
PlayCell ==
    /\ pc = "turn"
    /\ \E category \in set(categories) :
       \E pts \in available_points(board, category) :
       \E typed \in PlayerAnswers :
          LET player == lower(typed)
              correct_ans == lower(board[category][pts].answer)
              correct == check_answer(player, correct_ans)
              s == updated_score(score, pts, correct)
              b == mark_answered(board, category, pts)
          IN  /\ score' = s
              /\ board' = b
              /\ played' = [played EXCEPT ![<<category, pts>>] = Append(@, correct)]
              /\ console' = loop_head(b, s).console
              /\ pc' = loop_head(b, s).pc
    /\ UNCHANGED <<cat_i, pts_i, calls, request, result,
                   player_answer, correct_answer, verdict, variant>>

PlayTurn == DeclineTurn \/ ExhaustedCategory \/ PlayCell

Next == StartGame \/ GenerateCell \/ PlayTurn

Spec == Init /\ [][Next]_vars

\* the generation service answers or fails, and the player goes on answering the
\* prompts, not choosing exhausted categories for ever
FairSpec == Spec /\ WF_vars(StartGame) /\ WF_vars(GenerateCell)
                 /\ WF_vars(DeclineTurn \/ PlayCell)

----------------------------------------------------------------------------
(* Properties of generate_question, under SpecGen *)

\* the lines of the text field as line 34 takes them
text_lines(outcome) == split_on(strip(outcome.text), "\n")

\* the HTTP call failed: an exception, or a text of fewer than two lines
failed(outcome) == outcome.kind # "ok" \/ Len(text_lines(outcome)) < 2

is_fallback(r) ==
    /\ "returned" \in DOMAIN r
    /\ r.returned = fallback(request.category, request.points)

\* C1: generate_question never raises: whatever the HTTP call comes to, it returns
\* a question/answer pair, and on every failure (an exception of the request, an
\* error status, a body that is no JSON or has no text, a text of fewer than two
\* lines) the pair has the answer "backup" and a question that holds the category
\* and the point value.
GenerateNeverRaises ==
    pc = "returned" =>
        /\ "returned" \in DOMAIN result
        /\ DOMAIN result.returned = {"question", "answer"}
        /\ failed(request.outcome) =>
              /\ result.returned.answer = Backup
              /\ request.category \in set(result.returned.question)
              /\ ToString(request.points) \in set(result.returned.question)

GenerateNeverRaisesWitness ==
    /\ pc = "returned"
    /\ request.outcome.kind = "JSONDecodeError"
    /\ "returned" \in DOMAIN result
    /\ result.returned.answer = Backup

\* C6 as claimed: a generated pair is returned only for a text of exactly two lines;
\* every other response gets the fallback pair.
GeneratedOnlyForTwoLines ==
    pc = "returned" =>
        \/ is_fallback(result)
        \/ /\ request.outcome.kind = "ok"
           /\ Len(text_lines(request.outcome)) = 2

\* C6 as amended: a generated pair is returned exactly when the request succeeds and
\* the trimmed text has at least two lines (the first two are used, the others are
\* ignored); every other response gets the fallback pair.
GeneratedForTwoLinesOrMore ==
    pc = "returned" =>
        /\ "returned" \in DOMAIN result
        /\ result.branch = "generated" <=>
              /\ request.outcome.kind = "ok"
              /\ Len(text_lines(request.outcome)) >= 2
        /\ result.branch # "generated" => is_fallback(result)

GeneratedForTwoLinesOrMoreWitness ==
    /\ pc = "returned"
    /\ request.outcome.kind = "ok"
    /\ Len(text_lines(request.outcome)) = 3
    /\ result.branch = "generated"
    /\ result.returned.answer # Backup

starts_with(s, prefix) == Len(s) >= Len(prefix) /\ SubSeq(s, 1, Len(prefix)) = prefix

\* s without a leading "answer:" or "a:"
without_leading_prefix(s) ==
    IF starts_with(s, AnswerPrefix) THEN SubSeq(s, Len(AnswerPrefix) + 1, Len(s))
    ELSE IF starts_with(s, APrefix) THEN SubSeq(s, Len(APrefix) + 1, Len(s))
    ELSE s

\* C7: for a successful response the question is the first line trimmed and the
\* answer is the second line lowercased and trimmed with only a leading "answer:" or
\* "a:" removed, the rest of the answer text unchanged.
OnlyLeadingPrefixRemoved ==
    pc = "returned" /\ "returned" \in DOMAIN result /\ result.branch = "generated" =>
        LET lines == text_lines(request.outcome)
        IN  /\ result.returned.question = strip(lines[1])
            /\ result.returned.answer = strip(without_leading_prefix(lower(strip(lines[2]))))

\* C8: every return of the fallback pair, whatever its cause, is preceded by a
\* warning printed on the console.
FallbackAlwaysWarned ==
    pc = "returned" /\ is_fallback(result) =>
        \E i \in 1..Len(console) : console[i].kind = "error"

----------------------------------------------------------------------------
(* Properties of check_answer, under SpecMatch *)

\* C4 as claimed: the verdict is the same for the answers in another letter case
\* and for the player's answer with spaces added before, after or between its words.
CaseAndSpaceInsensitive ==
    pc = "respelled" => variant.verdict = verdict

\* C4 as amended: the verdict is the same for the answers in another letter case
\* and for the player's answer with spaces added before or after it; spaces added
\* between words are not collapsed, and keep the verdict of the tests' answers
\* ("mount   everest" for "mount everest") only because the similarity ratio stays
\* above 0.8.
CaseAndOuterSpaceInsensitive ==
    pc = "respelled" =>
        /\ variant.kind \in {"case", "outer_space"} => variant.verdict = verdict
        /\ <<player_answer, correct_answer>> \in TestAnswers => variant.verdict = verdict

CaseAndOuterSpaceInsensitiveWitness ==
    /\ pc = "respelled"
    /\ variant.kind = "outer_space"
    /\ variant.player = spaces(2) \o lower(<<"P","a","r","i","s">>) \o spaces(2)
    /\ variant.verdict = TRUE
    /\ verdict = TRUE

\* p is a part of c: a proper prefix or a proper substring
is_proper_part(p, c) ==
    /\ p # c
    /\ Len(p) >= 1
    /\ \E i \in 1..(Len(c) - Len(p) + 1) : SubSeq(c, i, i + Len(p) - 1) = p

\* p does not hold, as a whole word, some word of c longer than 3 characters
lacks_important_word(p, c) ==
    \E word \in set(split(c)) : Len(word) > 3 /\ word \notin set(split(p))

\* C5 as claimed: a player's answer that is only a part of the correct answer and
\* lacks one of its words of more than 3 characters is rejected.
PartialAnswersRejected ==
    /\ pc # "input"
    /\ is_proper_part(player_answer, correct_answer)
    /\ lacks_important_word(player_answer, correct_answer)
    => verdict = FALSE

\* C5 as amended: such a partial answer is rejected when, lowercased and trimmed, it
\* is at most two thirds as long as the correct answer, which is when its similarity
\* ratio 2 * len(part) / (len(part) + len(correct)) is at most 0.8; a longer part is
\* accepted by the similarity step.
ShortPartialAnswersRejected ==
    /\ pc # "input"
    /\ is_proper_part(player_answer, correct_answer)
    /\ lacks_important_word(player_answer, correct_answer)
    /\ 3 * Len(strip(lower(player_answer))) <= 2 * Len(strip(lower(correct_answer)))
    => verdict = FALSE

ShortPartialAnswersRejectedWitness ==
    /\ pc = "checked"
    /\ player_answer = <<"n","e","w">>
    /\ is_proper_part(player_answer, correct_answer)
    /\ lacks_important_word(player_answer, correct_answer)
    /\ verdict = FALSE

----------------------------------------------------------------------------
(* Properties of the game, under Spec and FairSpec *)

RECURSIVE sum(_, _)
\* the sum of f[x] over the x of a finite set
sum(f, S) ==
    IF S = {} THEN 0
    ELSE LET x == CHOOSE y \in S : TRUE
         IN  f[x] + sum(f, S \ {x})

\* the cell is on the board and its answered flag is set
answered(cell) ==
    /\ cell[1] \in DOMAIN board
    /\ cell[2] \in DOMAIN board[cell[1]]
    /\ board[cell[1]][cell[2]].answered

\* how often the cell was scored with this verdict
times_scored(cell, v) == Cardinality({i \in 1..Len(played[cell]) : played[cell][i] = v})

\* the points won and the points lost so far
won == sum([cell \in Cells |-> cell[2] * times_scored(cell, TRUE)], Cells)
lost == sum([cell \in Cells |-> cell[2] * times_scored(cell, FALSE)], Cells)

board_total == sum([cell \in Cells |-> cell[2]], Cells)

board_complete == \A cell \in Cells : answered(cell)

unanswered == Cardinality({cell \in Cells : ~answered(cell)})

turns_played == sum([cell \in Cells |-> Len(played[cell])], Cells)

\* C2: in every state of a game the score is the sum of the point values of the
\* cells played with a verdict of true less the sum of those played with a verdict
\* of false; a finished game with every cell answered correctly scores the total of
\* the board, one with every cell answered incorrectly scores minus the total.
ScoreIsPointsWonLessLost ==
    /\ score = won - lost
    /\ (\A cell \in Cells : played[cell] = <<TRUE>>) => score = board_total
    /\ (\A cell \in Cells : played[cell] = <<FALSE>>) => score = 0 - board_total

ScoreIsPointsWonLessLostWitness ==
    /\ pc = "done"
    /\ \A cell \in Cells : played[cell] = <<FALSE>>
    /\ score < 0

\* C3: a cell's answered flag changes only from false to true, in the very turn that
\* plays the cell, and never back; a cell is played in a turn only if it was not
\* answered before, so that no cell is scored more than once.
AnsweredOnceAndForAll ==
    [][\A cell \in Cells :
          /\ answered(cell) => answered(cell)'
          /\ answered(cell)' # answered(cell) <=> played'[cell] # played[cell]
          /\ played'[cell] # played[cell] => ~answered(cell) /\ Len(played'[cell]) = 1]_vars

AnsweredOnceAndForAllWitness ==
    /\ pc = "turn"
    /\ \E cell \in Cells : answered(cell) /\ Len(played[cell]) = 1
    /\ \E category \in set(categories) :
          /\ available_points(board, category) # {}
          /\ available_points(board, category) # set(points)

\* C9: initialize_board calls generate_question once for each (category, points)
\* pair, fallback or not, and leaves a board of one unanswered cell per pair; the
\* categories and point values of the board stay the same for the rest of the game.
BoardInitialisedOnce ==
    /\ \A cell \in Cells :
          calls[cell] = IF cell[1] \in DOMAIN board /\ cell[2] \in DOMAIN board[cell[1]]
                        THEN 1 ELSE 0
    /\ pc \in {"turn", "done"} =>
          /\ DOMAIN board = set(categories)
          /\ \A category \in set(categories) : DOMAIN board[category] = set(points)
          /\ Cardinality(Cells) = NumCategories * NumPoints
          /\ \A cell \in Cells : calls[cell] = 1
          /\ \A cell \in Cells : answered(cell) <=> played[cell] # <<>>

BoardInitialisedOnceWitness ==
    /\ pc = "turn"
    /\ turns_played = 0
    /\ \A cell \in Cells : ~answered(cell)
    /\ \E cell \in Cells : board[cell[1]][cell[2]].answer = Backup
    /\ \E cell \in Cells : board[cell[1]][cell[2]].answer # Backup

declined == \E i \in 1..Len(console) : console[i].kind = "thanks"

\* C10: the game is over, with the final score printed, only when every cell is
\* answered or the player declined to go on; no turn is prompted on a complete
\* board; every played turn leaves one unanswered cell less, there are never more
\* played turns than cells, and, the player not choosing exhausted categories for
\* ever, every game comes to its end.
GameEnds ==
    /\ [](pc = "done" =>
            /\ board_complete \/ declined
            /\ console[Len(console)] = [kind |-> "game_over", score |-> score])
    /\ [](pc = "turn" => ~board_complete)
    /\ [](turns_played <= Cardinality(Cells))
    /\ [][played' # played => unanswered' = unanswered - 1]_vars
    /\ <>(pc = "done")

GameEndsWitness ==
    /\ pc = "done"
    /\ board_complete
    /\ ~declined
    /\ turns_played = Cardinality(Cells)

====
